---- MODULE Spec2Model ----
(***************************************************************************)
(* FCMService.SendMulticastNotification (per-token retry variant): token   *)
(* deduplication, the absolute ceiling, batch planning, the gateway call,  *)
(* error classification, the retry loop with backoff and cancellation.     *)
(*                                                                         *)
(* One call runs at a time.  The suspension points of the call are the     *)
(* gateway request (s.client.SendEachForMulticast) and the backoff select  *)
(* (waitForRetry); the caller's context may be cancelled at any moment in  *)
(* between.  The gateway is the environment: it answers a batch either     *)
(* with a whole-batch error or with one positional result per token and    *)
(* the number of successful results as SuccessCount.                       *)
(***************************************************************************)
EXTENDS Integers, Sequences, FiniteSets, TLC

(***************************************************************************)
(* Bounds of the model.  maxTokensPerBatch (500 in the source) and         *)
(* FCMAbsoluteLimit (50000 in the source) are scaled down so that several  *)
(* batches per pass and inputs above the ceiling occur within the bounds.  *)
(***************************************************************************)
MaxInputLen == 4

\* longest token list of the calls followed to their return under fairness
MaxFairInputLen == 3

\* largest attempt number handed to backoffDelay on its own
MaxAttempt == 70

maxTokensPerBatch == 2

FCMAbsoluteLimit == 3

maxRetries == 3

\* the factors of time.Second in the two delay constants
initialRetryDelay == 1

maxRetryDelay == 30

\* the constants of the earlier whole-batch-retry engine, delays in milliseconds
maxRetriesBatch == 3

initialRetryDelayBatch == 100

maxRetryDelayBatch == 2000

Tokens == {"a", "b", "c", "d"}

EmptyToken == ""

InputTokens == Tokens \cup {EmptyToken}

InputLists == UNION {[1..n -> InputTokens] : n \in 0..MaxInputLen}

FairInputLists == UNION {[1..n -> InputTokens] : n \in 0..MaxFairInputLen}

Nil == "nil"

Canceled == "context canceled"

Min(x, y) == IF x < y THEN x ELSE y

(***************************************************************************)
(* Error messages.  The classifiers look at the text of an error only      *)
(* through containsInsensitive; a message is modelled by its text together *)
(* with the lower-cased fragments of the pattern tables it contains.       *)
(***************************************************************************)
batchRetryablePatterns ==
    << "deadline exceeded", "timeout", "connection refused", "connection reset",
       "temporary failure", "server unavailable", "internal error",
       "503", "500", "502", "504", "UNAVAILABLE", "INTERNAL", "RESOURCE_EXHAUSTED" >>

tokenNonRetryableErrors ==
    << "invalid-registration-token", "registration-token-not-registered",
       "invalid-package-name", "invalid-argument", "sender-id-mismatch",
       "mismatched-credential", "invalid-apns-credentials" >>

tokenRetryableErrors ==
    << "internal-error", "unavailable", "timeout", "server-unavailable",
       "quota-exceeded", "service-unavailable", "too-many-requests",
       "message-rate-exceeded" >>

\* strings.ToLower on the entries of the pattern tables
ToLower(s) ==
    CASE s = "UNAVAILABLE" -> "unavailable"
      [] s = "INTERNAL" -> "internal"
      [] s = "RESOURCE_EXHAUSTED" -> "resource_exhausted"
      [] OTHER -> s

\* The pattern-table fragments that occur in strings.ToLower(msg).
LowerFragments(msg) ==
    CASE msg = "unexpected http response with status: 503"
            -> {"503"}
      [] msg = "rpc error: code = UNAVAILABLE"
            -> {"unavailable"}
      [] msg = "context canceled"
            -> {}
      [] msg = "permission denied"
            -> {}
      [] msg = "registration-token-not-registered"
            -> {"registration-token-not-registered"}
      [] msg = "service-unavailable"
            -> {"service-unavailable", "unavailable"}
      [] msg = "invalid-argument: request timeout"
            -> {"invalid-argument", "timeout"}
      [] msg = "unknown-error"
            -> {}
      [] msg = "Too-Many-Requests"
            -> {"too-many-requests"}
      [] msg = "QUOTA-EXCEEDED: INVALID-PACKAGE-NAME"
            -> {"quota-exceeded", "invalid-package-name"}
      [] OTHER -> {}

\* the error messages the gateway of the model answers with
BatchErrors ==
    { "unexpected http response with status: 503",
      "rpc error: code = UNAVAILABLE",
      "context canceled",
      "permission denied" }

TokenErrors ==
    { "registration-token-not-registered",
      "service-unavailable",
      "invalid-argument: request timeout",
      "unknown-error" }

containsInsensitive(s, substr) == ToLower(substr) \in LowerFragments(s)

\* the scan of the pattern table in isRetryableBatchError
scanBatchPatterns(err) ==
    IF err = Nil THEN FALSE
    ELSE \E k \in 1..Len(batchRetryablePatterns) :
            containsInsensitive(err, batchRetryablePatterns[k])

\* variant: the retryable table is scanned before the non-retryable one
scanTokenPatternsRetryableFirst(err) ==
    IF err = Nil THEN FALSE
    ELSE IF \E k \in 1..Len(tokenRetryableErrors) :
               err = tokenRetryableErrors[k]
               \/ containsInsensitive(err, tokenRetryableErrors[k])
         THEN TRUE
    ELSE FALSE

\* the scans of the two tables in isRetryablePerTokenError
scanTokenPatterns(err) ==
    IF err = Nil THEN FALSE
    ELSE IF \E k \in 1..Len(tokenNonRetryableErrors) :
               err = tokenNonRetryableErrors[k]
               \/ containsInsensitive(err, tokenNonRetryableErrors[k])
         THEN FALSE
    ELSE IF \E k \in 1..Len(tokenRetryableErrors) :
               err = tokenRetryableErrors[k]
               \/ containsInsensitive(err, tokenRetryableErrors[k])
         THEN TRUE
    ELSE FALSE

\* the verdicts of the scans on the gateway's messages, computed once
retryableBatchMessages == {e \in BatchErrors : scanBatchPatterns(e)}

retryableTokenMessages == {e \in TokenErrors : scanTokenPatterns(e)}

isRetryableBatchError(err) ==
    IF err \in BatchErrors THEN err \in retryableBatchMessages
    ELSE scanBatchPatterns(err)

isRetryablePerTokenError(err) ==
    IF err \in TokenErrors THEN err \in retryableTokenMessages
    ELSE scanTokenPatterns(err)

(***************************************************************************)
(* Pure helpers of the engine.                                             *)
(***************************************************************************)
RECURSIVE uniqueLoop(_, _, _, _)
uniqueLoop(toks, k, seen, unique) ==
    IF k > Len(toks) THEN unique
    ELSE IF toks[k] = EmptyToken THEN uniqueLoop(toks, k + 1, seen, unique)
    ELSE IF toks[k] \notin seen
         THEN uniqueLoop(toks, k + 1, seen \cup {toks[k]}, Append(unique, toks[k]))
    ELSE uniqueLoop(toks, k + 1, seen, unique)

\* variant: empty strings are dropped, duplicates are kept
uniqueTokensKeepsDuplicates(toks) ==
    IF Len(toks) = 0 THEN toks ELSE SelectSeq(toks, LAMBDA t : t # EmptyToken)

RECURSIVE uniqueLoopKeepsEmpty(_, _, _, _)
uniqueLoopKeepsEmpty(toks, k, seen, unique) ==
    IF k > Len(toks) THEN unique
    ELSE IF toks[k] \notin seen
         THEN uniqueLoopKeepsEmpty(toks, k + 1, seen \cup {toks[k]},
                                   Append(unique, toks[k]))
    ELSE uniqueLoopKeepsEmpty(toks, k + 1, seen, unique)

\* variant: duplicates are dropped, the empty string is kept like any token
uniqueTokensKeepsEmpty(toks) ==
    IF Len(toks) = 0 THEN toks ELSE uniqueLoopKeepsEmpty(toks, 1, {}, <<>>)

uniqueTokens(toks) ==
    IF Len(toks) = 0 THEN toks ELSE uniqueLoop(toks, 1, {}, <<>>)

\* variant: the truncation keeps one token too many
truncateToLimitOffByOne(toks) ==
    IF Len(toks) > FCMAbsoluteLimit THEN SubSeq(toks, 1, FCMAbsoluteLimit + 1) ELSE toks

\* tokens[:FCMAbsoluteLimit] when the limit is exceeded
truncateToLimit(toks) ==
    IF Len(toks) > FCMAbsoluteLimit THEN SubSeq(toks, 1, FCMAbsoluteLimit) ELSE toks

\* startIndex is the 0-based index of the source
\* variant: the batch runs one token into the next one
getBatchOneLong(toks, startIndex) ==
    LET end == IF startIndex + maxTokensPerBatch + 1 > Len(toks)
               THEN Len(toks)
               ELSE startIndex + maxTokensPerBatch + 1
    IN  SubSeq(toks, startIndex + 1, end)

\* variant: the batch ends one token early
getBatchOneShort(toks, startIndex) ==
    LET end == IF startIndex + maxTokensPerBatch > Len(toks)
               THEN Len(toks)
               ELSE startIndex + maxTokensPerBatch - 1
    IN  SubSeq(toks, startIndex + 1, end)

getBatch(toks, startIndex) ==
    LET end == IF startIndex + maxTokensPerBatch > Len(toks)
               THEN Len(toks)
               ELSE startIndex + maxTokensPerBatch
    IN  SubSeq(toks, startIndex + 1, end)

(***************************************************************************)
(* time.Duration is an int64 count of nanoseconds.  A value is held as its *)
(* two's complement word in four 16-bit limbs, lowest first, so that the   *)
(* arithmetic wraps where the program's does.                              *)
(***************************************************************************)
Radix == 2 ^ 16

\* limbs of w * n for a small n, as many as the product needs
RECURSIVE TimesFrom(_, _, _, _)
TimesFrom(w, n, j, carry) ==
    IF j > Len(w)
    THEN IF carry = 0 THEN <<>> ELSE << carry >>
    ELSE LET p == w[j] * n + carry
         IN  << p % Radix >> \o TimesFrom(w, n, j + 1, p \div Radix)

Times(w, n) == TimesFrom(w, n, 1, 0)

\* the low 64 bits
Int64(w) ==
    LET limb(j) == IF j <= Len(w) THEN w[j] ELSE 0
    IN  << limb(1), limb(2), limb(3), limb(4) >>

\* time.Second = 1000 * 1000 * 1000 nanoseconds
Second == Int64(Times(Times(<< 1000 >>, 1000), 1000))

\* n * time.Second
Seconds(n) == Int64(Times(Second, n))

\* unsigned order of two limb sequences
Above(a, b) ==
    LET len == IF Len(a) > Len(b) THEN Len(a) ELSE Len(b)
        at(w, j) == IF j <= Len(w) THEN w[j] ELSE 0
    IN  \E j \in 1..len :
            /\ at(a, j) > at(b, j)
            /\ \A h \in (j + 1)..len : at(a, h) = at(b, h)

Negative(w) == w[4] >= Radix \div 2

\* a > b on int64
Greater(a, b) ==
    IF Negative(a) # Negative(b) THEN Negative(b) ELSE Above(a, b)

\* limbs of w * 2^n: n \div 16 whole limbs and n % 16 bits up
TimesPowerOfTwo(w, n) ==
    [j \in 1..(n \div 16) |-> 0] \o Times(w, 2 ^ (n % 16))

\* w * time.Duration(1 << n) on int64: the bits above 63 are dropped
ShiftLeft(w, n) == Int64(TimesPowerOfTwo(w, n))

\* the two delay constants and the zero duration, in nanoseconds
initialRetryDelayNanos == Seconds(initialRetryDelay)

maxRetryDelayNanos == Seconds(maxRetryDelay)

NoDelay == Seconds(0)

\* variant: the delay is computed from the attempts that remain
backoffDelayFromRemaining(att) ==
    LET delay == ShiftLeft(initialRetryDelayNanos, maxRetries - att)
    IN  IF Greater(delay, maxRetryDelayNanos) THEN maxRetryDelayNanos ELSE delay

backoffDelay(att) ==
    LET delay == ShiftLeft(initialRetryDelayNanos, att - 1)
    IN  IF Greater(delay, maxRetryDelayNanos) THEN maxRetryDelayNanos ELSE delay

\* waitForRetry: delay := backoffDelay(attempt), for the attempts of the retry loop
retryDelays == [att \in 1..maxRetries |-> backoffDelay(att)]

(***************************************************************************)
(* retryState: {totalSuccess int, finalFailedTokens map[string]struct{}}   *)
(***************************************************************************)
newRetryState == [totalSuccess |-> 0, finalFailedTokens |-> {}]

\* variant: the counter is set to the successes of the pass
addSuccessCountOverwrites(rs, count) ==
    [rs EXCEPT !.totalSuccess = count]

addSuccessCount(rs, count) ==
    [rs EXCEPT !.totalSuccess = rs.totalSuccess + count]

failedCount(rs) == Cardinality(rs.finalFailedTokens)

\* variant: marking a token failed leaves the set as it was
markAsFailedForgets(rs, token) == rs

markAsFailed(rs, token) ==
    [rs EXCEPT !.finalFailedTokens = rs.finalFailedTokens \cup {token}]

isAlreadyFailed(rs, token) == token \in rs.finalFailedTokens

RECURSIVE markEach(_, _, _)
markEach(rs, toks, k) ==
    IF k > Len(toks) THEN rs ELSE markEach(markAsFailed(rs, toks[k]), toks, k + 1)

\* variant: the tokens left after the last attempt are not marked
markRemainingAsFailedSkips(rs, toks) == rs

markRemainingAsFailed(rs, toks) ==
    IF Len(toks) > 0 THEN markEach(rs, toks, 1) ELSE rs

(***************************************************************************)
(* The gateway (messaging.Client.SendEachForMulticast).  A reply is a      *)
(* whole-batch error, or a BatchResponse with one SendResponse per token   *)
(* of the batch, in order, and SuccessCount the number of successes.       *)
(***************************************************************************)
SendResponses ==
    {[Success |-> TRUE, Error |-> Nil]}
        \cup {[Success |-> FALSE, Error |-> e] : e \in TokenErrors}

CountSuccess(responses) ==
    Cardinality({k \in 1..Len(responses) : responses[k].Success})

GatewayReplies(b) ==
    {[err |-> e, Responses |-> <<>>, SuccessCount |-> 0] : e \in BatchErrors}
        \cup {[err |-> Nil, Responses |-> r, SuccessCount |-> CountSuccess(r)] :
                 r \in [1..Len(b) -> SendResponses]}

(***************************************************************************)
(* Processing of one gateway reply.                                        *)
(***************************************************************************)
filterRetryableTokens(toks, rs) ==
    SelectSeq(toks, LAMBDA t : ~isAlreadyFailed(rs, t))

\* variant: a terminal whole-batch error marks the batch failed and still hands
\* its tokens on for retry
handleBatchErrorStillRetries(err, b, rs) ==
    IF isRetryableBatchError(err)
    THEN [successCount |-> 0,
          retryableTokens |-> filterRetryableTokens(b, rs),
          retryState |-> rs]
    ELSE [successCount |-> 0,
          retryableTokens |-> filterRetryableTokens(b, rs),
          retryState |-> markEach(rs, b, 1)]

\* variant: a retryable whole-batch error hands no token on for retry
handleBatchErrorDropsRetryable(err, b, rs) ==
    IF isRetryableBatchError(err)
    THEN [successCount |-> 0,
          retryableTokens |-> <<>>,
          retryState |-> rs]
    ELSE [successCount |-> 0,
          retryableTokens |-> <<>>,
          retryState |-> markEach(rs, b, 1)]

\* variant: a terminal whole-batch error leaves finalFailedTokens as it was
handleBatchErrorSkipsMark(err, b, rs) ==
    IF isRetryableBatchError(err)
    THEN [successCount |-> 0,
          retryableTokens |-> filterRetryableTokens(b, rs),
          retryState |-> rs]
    ELSE [successCount |-> 0,
          retryableTokens |-> <<>>,
          retryState |-> rs]

\* batchResult plus the retryState as the handler leaves it
handleBatchError(err, b, rs) ==
    IF isRetryableBatchError(err)
    THEN [successCount |-> 0,
          retryableTokens |-> filterRetryableTokens(b, rs),
          retryState |-> rs]
    ELSE [successCount |-> 0,
          retryableTokens |-> <<>>,
          retryState |-> markEach(rs, b, 1)]

\* variant: every failed token that is not yet in finalFailedTokens is retried,
\* whatever its error
shouldRetryTokenAlways(err, token, rs) ==
    IF isAlreadyFailed(rs, token) THEN FALSE ELSE TRUE

shouldRetryToken(err, token, rs) ==
    IF isAlreadyFailed(rs, token) THEN FALSE ELSE isRetryablePerTokenError(err)

RECURSIVE processLoop(_, _, _, _, _)
processLoop(b, responses, rs, idx, retryable) ==
    IF idx > Len(responses) THEN [retryableTokens |-> retryable, retryState |-> rs]
    ELSE IF responses[idx].Success
         THEN processLoop(b, responses, rs, idx + 1, retryable)
    ELSE IF shouldRetryToken(responses[idx].Error, b[idx], rs)
         THEN processLoop(b, responses, rs, idx + 1, Append(retryable, b[idx]))
    ELSE processLoop(b, responses, markAsFailed(rs, b[idx]), idx + 1, retryable)

\* variant: every token of the batch that is not given up on is handed on for
\* retry, the delivered ones included
processTokenResponsesRetriesDelivered(b, responses, rs) ==
    LET p == processLoop(b, responses, rs, 1, <<>>)
    IN  [p EXCEPT !.retryableTokens =
                      SelectSeq(b, LAMBDA t : ~isAlreadyFailed(p.retryState, t))]

\* variant: the responses are matched to the tokens of the batch from its end
processTokenResponsesMisaligned(b, responses, rs) ==
    processLoop([k \in 1..Len(b) |-> b[Len(b) + 1 - k]], responses, rs, 1, <<>>)

processTokenResponses(b, responses, rs) == processLoop(b, responses, rs, 1, <<>>)

\* variant: a batch answered without a whole-batch error counts every token of
\* the batch as a success
sendBatchCountsBatchSize(b, reply, rs) ==
    IF reply.err # Nil
    THEN handleBatchError(reply.err, b, rs)
    ELSE LET p == processTokenResponses(b, reply.Responses, rs)
         IN  [successCount |-> Len(b),
              retryableTokens |-> p.retryableTokens,
              retryState |-> p.retryState]

\* sendBatch after the gateway has replied
sendBatch(b, reply, rs) ==
    IF reply.err # Nil
    THEN handleBatchError(reply.err, b, rs)
    ELSE LET p == processTokenResponses(b, reply.Responses, rs)
         IN  [successCount |-> reply.SuccessCount,
              retryableTokens |-> p.retryableTokens,
              retryState |-> p.retryState]

\* variant: the wait is a plain sleep that does not look at the context
waitForRetryIgnoresContext(ctxDone) == Nil

\* select { case <-time.After(delay): nil; case <-ctx.Done(): ctx.Err() }
waitForRetry(ctxDone) == IF ctxDone THEN Canceled ELSE Nil

\* variant: a call in which nothing succeeded returns an error
finishErrorsWhenAllFailed(rs, cur) ==
    LET final == IF Len(cur) > 0 THEN markRemainingAsFailed(rs, cur) ELSE rs
    IN  [retryState |-> final,
         result |-> [success |-> final.totalSuccess,
                     failure |-> failedCount(final),
                     err |-> IF final.totalSuccess = 0 /\ failedCount(final) > 0
                             THEN "all tokens failed" ELSE Nil]]

\* sendWithRetry after the loop: mark what is left, return the totals
finish(rs, cur) ==
    LET final == IF Len(cur) > 0 THEN markRemainingAsFailed(rs, cur) ELSE rs
    IN  [retryState |-> final,
         result |-> [success |-> final.totalSuccess,
                     failure |-> failedCount(final),
                     err |-> Nil]]

\* variant: the cancelled return drops the totals
cancelledReturnDropsTotals(rs, cur, err) ==
    [success |-> 0, failure |-> 0, err |-> err]

\* variant: the cancelled return counts only the tokens already given up on
cancelledReturnOmitsPending(rs, cur, err) ==
    [success |-> rs.totalSuccess, failure |-> failedCount(rs), err |-> err]

\* the return of sendWithRetry when waitForRetry fails
cancelledReturn(rs, cur, err) ==
    [success |-> rs.totalSuccess, failure |-> failedCount(rs) + Len(cur), err |-> err]

(***************************************************************************)
(* State.                                                                  *)
(***************************************************************************)
VARIABLES
    pc,               \* "idle", "batches", "inflight", "wait", "done"
    allTokens,        \* tokens after deduplication and truncation (sendWithRetry)
    currentTokens,    \* sendWithRetry: working list of the pass
    attempt,          \* sendWithRetry: loop counter
    retryState,       \* sendWithRetry: totalSuccess, finalFailedTokens
    i,                \* sendBatches: start index of the next batch (0-based)
    successCount,     \* sendBatches: successes of the pass so far
    retryableTokens,  \* sendBatches: retryable tokens of the pass so far
    batch,            \* sendBatch: the batch in the outstanding gateway request
    cancelled,        \* ctx.Done() is closed
    result,           \* the returned (success, failure, err)
    \* history of the call, read by the properties only
    gatewayCalls,     \* number of gateway requests issued
    waits,            \* number of backoff waits entered
    submits,          \* token -> number of gateway requests that carried it
    firstPass,        \* tokens submitted in pass 1, in submission order
    succeeded,        \* tokens with a successful positional result
    terminal,         \* tokens with a terminal outcome from the gateway
    onlyBatchRetryable, \* every reply so far was a retryable whole-batch error
    distinctInput,    \* the argument: its distinct non-empty tokens, by first occurrence
    inputLen,         \* the argument: its length
    cancelledInWait,  \* the context was seen cancelled during a backoff wait
    passes            \* one record per pass started: its token list, the tokens
                      \* submitted so far, the gateway's outcome per token
                      \* (ok, term, retry), the delay of the wait after it

\* two calls in flight on one engine
VARIABLES
    calls,            \* call -> the locals of its sendWithRetry and its history
    retryStates       \* the retryState objects, by the call that allocated them

\* backoffDelay on its own, and the earlier whole-batch-retry engine
VARIABLES
    backoff,          \* an attempt number and what backoffDelay returns for it
    classified,       \* an error and what isRetryablePerTokenError returns for it
    mr                \* the locals of sendMulticastWithRetry and of its caller

prog == << pc, allTokens, currentTokens, attempt, retryState, i,
           successCount, retryableTokens, batch, cancelled, result >>

hist == << gatewayCalls, waits, submits, firstPass, succeeded, terminal,
           onlyBatchRetryable, distinctInput, inputLen, cancelledInWait, passes >>

conc == << calls, retryStates >>

side == << backoff, classified, mr >>

vars == << prog, hist, conc, side >>

NoResult == [success |-> 0, failure |-> 0, err |-> Nil]

\* backoffDelay not called yet
NoBackoff == [pc |-> "idle", attempt |-> 0, delay |-> NoDelay]

\* isRetryablePerTokenError not called yet
NotClassified == [pc |-> "idle", err |-> Nil, retryable |-> FALSE]

\* the whole-batch-retry engine before a call
NoMulticast ==
    [pc |-> "idle", n |-> 0, i |-> 0, attempt |-> 0, retryDelay |-> 0,
     totalSuccess |-> 0, totalFailure |-> 0, cancelled |-> FALSE,
     result |-> NoResult,
     submissions |-> 0, waited |-> <<>>]

CallIds == {"first", "second"}

\* a call that has not been made yet
NoCall ==
    [pc |-> "idle", currentTokens |-> <<>>, attempt |-> 0, retryState |-> "none",
     i |-> 0, successCount |-> 0, retryableTokens |-> <<>>, batch |-> <<>>,
     result |-> NoResult,
     n |-> 0, succeeded |-> {}, terminal |-> {}]

Init ==
    /\ pc = "idle"
    /\ allTokens = <<>>
    /\ currentTokens = <<>>
    /\ attempt = 0
    /\ retryState = newRetryState
    /\ i = 0
    /\ successCount = 0
    /\ retryableTokens = <<>>
    /\ batch = <<>>
    /\ cancelled = FALSE
    /\ result = NoResult
    /\ gatewayCalls = 0
    /\ waits = 0
    /\ submits = [t \in Tokens |-> 0]
    /\ firstPass = <<>>
    /\ succeeded = {}
    /\ terminal = {}
    /\ onlyBatchRetryable = TRUE
    /\ distinctInput = <<>>
    /\ inputLen = 0
    /\ cancelledInWait = FALSE
    /\ passes = <<>>
    /\ calls = [c \in CallIds |-> NoCall]
    /\ retryStates = [c \in CallIds |-> newRetryState]
    /\ backoff = NoBackoff
    /\ classified = NotClassified
    /\ mr = NoMulticast

(***************************************************************************)
(* What the caller asked for: the distinct non-empty tokens of the         *)
(* argument, ordered by the index of their first occurrence.               *)
(***************************************************************************)
FirstOccurrences(input) ==
    {j \in 1..Len(input) :
        /\ input[j] # EmptyToken
        /\ \A k \in 1..(j - 1) : input[k] # input[j]}

NthSmallest(S, n) == CHOOSE j \in S : Cardinality({k \in S : k < j}) = n - 1

DistinctInOrder(input) ==
    [n \in 1..Cardinality(FirstOccurrences(input)) |->
        input[NthSmallest(FirstOccurrences(input), n)]]

(***************************************************************************)
(* Operations.                                                             *)
(***************************************************************************)
\* history record of a pass over the list toks
NewPass(toks) ==
    [list |-> toks, sent |-> <<>>, ok |-> {}, term |-> {}, retry |-> {},
     delay |-> NoDelay]

\* sendBatches before its first batch
StartPass ==
    /\ i' = 0
    /\ successCount' = 0
    /\ retryableTokens' = <<>>

\* SendMulticastNotification up to the first gateway request: the empty
\* short-circuit, deduplication, the ceiling, newRetryState, and the head of
\* the retry loop for attempt 1.
Call(input) ==
    /\ pc = "idle"
    /\ UNCHANGED << conc, side >>
    /\ cancelled' = FALSE
    /\ batch' = <<>>
    /\ distinctInput' = DistinctInOrder(input)
    /\ inputLen' = Len(input)
    /\ UNCHANGED << gatewayCalls, waits, submits, firstPass, succeeded, terminal,
                    onlyBatchRetryable, cancelledInWait >>
    /\ IF Len(input) = 0
       THEN /\ pc' = "done"
            /\ result' = [success |-> 0, failure |-> 0, err |-> Nil]
            /\ UNCHANGED << allTokens, currentTokens, attempt, retryState, i,
                            successCount, retryableTokens, passes >>
       ELSE LET all == truncateToLimit(uniqueTokens(input))
            IN  /\ allTokens' = all
                /\ currentTokens' = all
                /\ attempt' = 1
                /\ IF Len(all) = 0
                   THEN /\ pc' = "done"
                        /\ retryState' = finish(newRetryState, all).retryState
                        /\ result' = finish(newRetryState, all).result
                        /\ UNCHANGED << i, successCount, retryableTokens, passes >>
                   ELSE /\ pc' = "batches"
                        /\ retryState' = newRetryState
                        /\ result' = NoResult
                        /\ StartPass
                        /\ passes' = << NewPass(all) >>

\* variant: the batch loop looks at the context and submits nothing once it is done
SubmitBatchStopsWhenCancelled ==
    /\ ~cancelled
    /\ pc = "batches"
    /\ UNCHANGED << conc, side >>
    /\ i < Len(currentTokens)
    /\ batch' = getBatch(currentTokens, i)
    /\ pc' = "inflight"
    /\ gatewayCalls' = gatewayCalls + 1
    /\ submits' = [t \in Tokens |->
                      IF \E k \in 1..Len(batch') : batch'[k] = t
                      THEN submits[t] + 1 ELSE submits[t]]
    /\ firstPass' = IF attempt = 1 THEN firstPass \o batch' ELSE firstPass
    /\ passes' = [passes EXCEPT ![Len(passes)].sent = @ \o batch']
    /\ UNCHANGED << allTokens, currentTokens, attempt, retryState, i,
                    successCount, retryableTokens, cancelled, result,
                    waits, succeeded, terminal, onlyBatchRetryable,
                    distinctInput, inputLen, cancelledInWait >>

\* sendBatches loop body up to the gateway request of sendBatch
SubmitBatch ==
    /\ pc = "batches"
    /\ UNCHANGED << conc, side >>
    /\ i < Len(currentTokens)
    /\ batch' = getBatch(currentTokens, i)
    /\ pc' = "inflight"
    /\ gatewayCalls' = gatewayCalls + 1
    /\ submits' = [t \in Tokens |->
                      IF \E k \in 1..Len(batch') : batch'[k] = t
                      THEN submits[t] + 1 ELSE submits[t]]
    /\ firstPass' = IF attempt = 1 THEN firstPass \o batch' ELSE firstPass
    /\ passes' = [passes EXCEPT ![Len(passes)].sent = @ \o batch']
    /\ UNCHANGED << allTokens, currentTokens, attempt, retryState, i,
                    successCount, retryableTokens, cancelled, result,
                    waits, succeeded, terminal, onlyBatchRetryable,
                    distinctInput, inputLen, cancelledInWait >>

\* what a reply says about the tokens of the batch it answers
OkTokens(b, reply) ==
    {b[k] : k \in {n \in 1..Len(reply.Responses) : reply.Responses[n].Success}}

TerminalTokens(b, reply) ==
    IF reply.err # Nil
    THEN IF isRetryableBatchError(reply.err) THEN {} ELSE {b[k] : k \in 1..Len(b)}
    ELSE {b[k] : k \in {n \in 1..Len(reply.Responses) :
                /\ ~reply.Responses[n].Success
                /\ ~isRetryablePerTokenError(reply.Responses[n].Error)}}

RetryableOutcomeTokens(b, reply) ==
    IF reply.err # Nil
    THEN IF isRetryableBatchError(reply.err) THEN {b[k] : k \in 1..Len(b)} ELSE {}
    ELSE {b[k] : k \in {n \in 1..Len(reply.Responses) :
                /\ ~reply.Responses[n].Success
                /\ isRetryablePerTokenError(reply.Responses[n].Error)}}

\* the gateway replies: the rest of sendBatch and of the sendBatches loop body
GatewayReply(reply) ==
    /\ pc = "inflight"
    /\ UNCHANGED << conc, side >>
    /\ LET br == sendBatch(batch, reply, retryState)
       IN  /\ retryState' = br.retryState
           /\ successCount' = successCount + br.successCount
           /\ retryableTokens' = retryableTokens \o br.retryableTokens
    /\ i' = i + maxTokensPerBatch
    /\ batch' = <<>>
    /\ pc' = "batches"
    /\ succeeded' = succeeded \cup OkTokens(batch, reply)
    /\ terminal' = terminal \cup TerminalTokens(batch, reply)
    /\ passes' = [passes EXCEPT
                      ![Len(passes)].ok = @ \cup OkTokens(batch, reply),
                      ![Len(passes)].term = @ \cup TerminalTokens(batch, reply),
                      ![Len(passes)].retry = @ \cup RetryableOutcomeTokens(batch, reply)]
    /\ onlyBatchRetryable' =
            (onlyBatchRetryable /\ reply.err # Nil /\ isRetryableBatchError(reply.err))
    /\ UNCHANGED << allTokens, currentTokens, attempt, cancelled, result,
                    gatewayCalls, waits, submits, firstPass, distinctInput, inputLen, cancelledInWait >>

PassOver == pc = "batches" /\ i >= Len(currentTokens)

\* variant: the break leaves currentTokens as it is, and the return marks the
\* tokens of the pass as failed
EndPassCompleteKeepsWorkingSet ==
    /\ PassOver
    /\ UNCHANGED << conc, side >>
    /\ Len(retryableTokens) = 0
    /\ LET rs == addSuccessCount(retryState, successCount)
       IN  /\ retryState' = finish(rs, currentTokens).retryState
           /\ result' = finish(rs, currentTokens).result
    /\ pc' = "done"
    /\ UNCHANGED << allTokens, currentTokens, attempt, i, successCount,
                    retryableTokens, batch, cancelled >>
    /\ UNCHANGED hist

\* the pass left nothing to retry: break, then the return of sendWithRetry
EndPassComplete ==
    /\ PassOver
    /\ UNCHANGED << conc, side >>
    /\ Len(retryableTokens) = 0
    /\ LET rs == addSuccessCount(retryState, successCount)
       IN  /\ retryState' = finish(rs, <<>>).retryState
           /\ result' = finish(rs, <<>>).result
    /\ currentTokens' = <<>>
    /\ pc' = "done"
    /\ UNCHANGED << allTokens, attempt, i, successCount, retryableTokens,
                    batch, cancelled >>
    /\ UNCHANGED hist

\* retryable tokens and attempts left: enter the backoff wait
\* variant: the backoff wait is taken after the last attempt as well
EndPassRetryAlwaysWaits ==
    /\ PassOver
    /\ UNCHANGED << conc, side >>
    /\ Len(retryableTokens) # 0
    /\ attempt <= maxRetries
    /\ retryState' = addSuccessCount(retryState, successCount)
    /\ currentTokens' = uniqueTokens(retryableTokens)
    /\ pc' = "wait"
    /\ waits' = waits + 1
    /\ cancelledInWait' = cancelled
    /\ passes' = [passes EXCEPT ![Len(passes)].delay = retryDelays[attempt]]
    /\ UNCHANGED << allTokens, attempt, i, successCount, retryableTokens,
                    batch, cancelled, result >>
    /\ UNCHANGED << gatewayCalls, submits, firstPass, succeeded, terminal,
                    onlyBatchRetryable, distinctInput, inputLen >>

EndPassRetry ==
    /\ PassOver
    /\ UNCHANGED << conc, side >>
    /\ Len(retryableTokens) # 0
    /\ attempt < maxRetries
    /\ retryState' = addSuccessCount(retryState, successCount)
    /\ currentTokens' = uniqueTokens(retryableTokens)
    /\ pc' = "wait"
    /\ waits' = waits + 1
    /\ cancelledInWait' = cancelled
    /\ passes' = [passes EXCEPT ![Len(passes)].delay = retryDelays[attempt]]
    /\ UNCHANGED << allTokens, attempt, i, successCount, retryableTokens,
                    batch, cancelled, result >>
    /\ UNCHANGED << gatewayCalls, submits, firstPass, succeeded, terminal,
                    onlyBatchRetryable, distinctInput, inputLen >>

\* retryable tokens after the last attempt: the loop ends, the rest is marked
EndPassExhausted ==
    /\ PassOver
    /\ UNCHANGED << conc, side >>
    /\ Len(retryableTokens) # 0
    /\ ~(attempt < maxRetries)
    /\ LET rs == addSuccessCount(retryState, successCount)
           cur == uniqueTokens(retryableTokens)
       IN  /\ currentTokens' = cur
           /\ retryState' = finish(rs, cur).retryState
           /\ result' = finish(rs, cur).result
    /\ attempt' = attempt + 1
    /\ pc' = "done"
    /\ UNCHANGED << allTokens, i, successCount, retryableTokens, batch,
                    cancelled >>
    /\ UNCHANGED hist

\* waitForRetry returns nil: next iteration of the retry loop
\* variant: the attempt counter is not advanced when the wait is over
WaitElapsedKeepsAttempt ==
    /\ pc = "wait"
    /\ UNCHANGED << conc, side >>
    /\ waitForRetry(cancelled) = Nil
    /\ attempt' = attempt
    /\ IF attempt' <= maxRetries /\ Len(currentTokens) # 0
       THEN /\ pc' = "batches"
            /\ StartPass
            /\ passes' = Append(passes, NewPass(currentTokens))
            /\ UNCHANGED << retryState, result >>
       ELSE /\ pc' = "done"
            /\ retryState' = finish(retryState, currentTokens).retryState
            /\ result' = finish(retryState, currentTokens).result
            /\ UNCHANGED << i, successCount, retryableTokens, passes >>
    /\ UNCHANGED << allTokens, currentTokens, batch, cancelled >>
    /\ UNCHANGED << gatewayCalls, waits, submits, firstPass, succeeded, terminal,
                    onlyBatchRetryable, distinctInput, inputLen, cancelledInWait >>

\* variant: the select of waitForRetry has no timer case, so a wait ends only by
\* the context
WaitElapsedWithoutTimer ==
    /\ FALSE
    /\ pc = "wait"
    /\ UNCHANGED << conc, side >>
    /\ waitForRetry(cancelled) = Nil
    /\ attempt' = attempt + 1
    /\ IF attempt' <= maxRetries /\ Len(currentTokens) # 0
       THEN /\ pc' = "batches"
            /\ StartPass
            /\ passes' = Append(passes, NewPass(currentTokens))
            /\ UNCHANGED << retryState, result >>
       ELSE /\ pc' = "done"
            /\ retryState' = finish(retryState, currentTokens).retryState
            /\ result' = finish(retryState, currentTokens).result
            /\ UNCHANGED << i, successCount, retryableTokens, passes >>
    /\ UNCHANGED << allTokens, currentTokens, batch, cancelled >>
    /\ UNCHANGED << gatewayCalls, waits, submits, firstPass, succeeded, terminal,
                    onlyBatchRetryable, distinctInput, inputLen, cancelledInWait >>

WaitElapsed ==
    /\ pc = "wait"
    /\ UNCHANGED << conc, side >>
    /\ waitForRetry(cancelled) = Nil
    /\ attempt' = attempt + 1
    /\ IF attempt' <= maxRetries /\ Len(currentTokens) # 0
       THEN /\ pc' = "batches"
            /\ StartPass
            /\ passes' = Append(passes, NewPass(currentTokens))
            /\ UNCHANGED << retryState, result >>
       ELSE /\ pc' = "done"
            /\ retryState' = finish(retryState, currentTokens).retryState
            /\ result' = finish(retryState, currentTokens).result
            /\ UNCHANGED << i, successCount, retryableTokens, passes >>
    /\ UNCHANGED << allTokens, currentTokens, batch, cancelled >>
    /\ UNCHANGED << gatewayCalls, waits, submits, firstPass, succeeded, terminal,
                    onlyBatchRetryable, distinctInput, inputLen, cancelledInWait >>

\* waitForRetry returns ctx.Err(): sendWithRetry returns with the error
WaitCancelled ==
    /\ pc = "wait"
    /\ UNCHANGED << conc, side >>
    /\ waitForRetry(cancelled) # Nil
    /\ result' = cancelledReturn(retryState, currentTokens, waitForRetry(cancelled))
    /\ pc' = "done"
    /\ UNCHANGED << allTokens, currentTokens, attempt, retryState, i,
                    successCount, retryableTokens, batch, cancelled >>
    /\ UNCHANGED hist

\* the caller cancels the context of the call in progress
Cancel ==
    /\ pc \in {"batches", "inflight", "wait"}
    /\ UNCHANGED << conc, side >>
    /\ ~cancelled
    /\ cancelled' = TRUE
    /\ cancelledInWait' = (pc = "wait")
    /\ UNCHANGED << pc, allTokens, currentTokens, attempt, retryState, i,
                    successCount, retryableTokens, batch, result >>
    /\ UNCHANGED << gatewayCalls, waits, submits, firstPass, succeeded, terminal,
                    onlyBatchRetryable, distinctInput, inputLen, passes >>

\* the caller has the result; nothing of the call survives it
Discard ==
    /\ pc = "done"
    /\ UNCHANGED << conc, side >>
    /\ pc' = "idle"
    /\ allTokens' = <<>>
    /\ currentTokens' = <<>>
    /\ attempt' = 0
    /\ retryState' = newRetryState
    /\ i' = 0
    /\ successCount' = 0
    /\ retryableTokens' = <<>>
    /\ batch' = <<>>
    /\ cancelled' = FALSE
    /\ result' = NoResult
    /\ gatewayCalls' = 0
    /\ waits' = 0
    /\ submits' = [t \in Tokens |-> 0]
    /\ firstPass' = <<>>
    /\ succeeded' = {}
    /\ terminal' = {}
    /\ onlyBatchRetryable' = TRUE
    /\ distinctInput' = <<>>
    /\ inputLen' = 0
    /\ cancelledInWait' = FALSE
    /\ passes' = <<>>

\* a caller calls the engine with some token list
SendMulticastNotification ==
    /\ pc = "idle"
    /\ \E input \in InputLists : Call(input)

\* the gateway answers the outstanding request somehow
GatewayAnswers ==
    /\ pc = "inflight"
    /\ \E reply \in GatewayReplies(batch) : GatewayReply(reply)

Next ==
    \/ SendMulticastNotification
    \/ SubmitBatch
    \/ GatewayAnswers
    \/ EndPassComplete
    \/ EndPassRetry
    \/ EndPassExhausted
    \/ WaitElapsed
    \/ WaitCancelled
    \/ Cancel
    \/ Discard

Spec == Init /\ [][Next]_vars

\* a step of the call in progress: of its goroutine, of the gateway answering
\* its request, or of its backoff wait ending by the timer or by the context
Progress ==
    \/ SubmitBatch
    \/ GatewayAnswers
    \/ EndPassComplete
    \/ EndPassRetry
    \/ EndPassExhausted
    \/ WaitElapsed
    \/ WaitCancelled

\* One call under the scheduling the engine runs with: the goroutine of the call
\* keeps running, every gateway request returns, and every backoff wait ends.
\* Nothing is assumed about when a call is made or whether the context is ever
\* cancelled.
Fairness == WF_vars(Progress)

SendMulticastNotificationFair ==
    /\ pc = "idle"
    /\ \E input \in FairInputLists : Call(input)

NextFair ==
    \/ SendMulticastNotificationFair
    \/ SubmitBatch
    \/ GatewayAnswers
    \/ EndPassComplete
    \/ EndPassRetry
    \/ EndPassExhausted
    \/ WaitElapsed
    \/ WaitCancelled
    \/ Cancel
    \/ Discard

SpecFair == Init /\ [][NextFair]_vars /\ Fairness

(***************************************************************************)
(* Two calls interleaved on one engine.  The engine holds the gateway      *)
(* client only; every call has its own locals and allocates its own        *)
(* retryState.  A step is one call's progress to its next gateway request, *)
(* gateway reply, or end of wait.                                          *)
(***************************************************************************)

\* the token lists the two callers pass
ConcurrentInputs == { <<"a", "b">>, <<"b">>, <<"b", "c", "b">> }

\* variant: the engine keeps one retryState and every call works on it
retryStateOfEngine(c) == "first"

\* the retryState object the call c works on: the one it allocated on entry
retryStateOf(c) == c

SetCall(c, new) ==
    calls' = [calls EXCEPT ![c] = new]

SetRetryState(c, rs) ==
    retryStates' = [retryStates EXCEPT ![calls'[c].retryState] = rs]

\* SendMulticastNotification up to the first batch of the call c
ConcurrentCall(c, input) ==
    /\ calls[c].pc = "idle"
    /\ LET all == truncateToLimit(uniqueTokens(input))
           started == [NoCall EXCEPT !.retryState = retryStateOf(c),
                                     !.currentTokens = all,
                                     !.attempt = 1,
                                     !.n = Len(all)]
       IN  IF Len(input) = 0
           THEN /\ SetCall(c, [NoCall EXCEPT !.pc = "done"])
                /\ UNCHANGED retryStates
           ELSE IF Len(all) = 0
           THEN /\ SetCall(c, [started EXCEPT
                                  !.pc = "done",
                                  !.result = finish(newRetryState, all).result])
                /\ SetRetryState(c, finish(newRetryState, all).retryState)
           ELSE /\ SetCall(c, [started EXCEPT !.pc = "batches"])
                /\ SetRetryState(c, newRetryState)
    /\ UNCHANGED << prog, hist, side >>

\* sendBatch of the call c up to its gateway request
ConcurrentSubmit(c) ==
    /\ calls[c].pc = "batches"
    /\ calls[c].i < Len(calls[c].currentTokens)
    /\ SetCall(c, [calls[c] EXCEPT
                      !.batch = getBatch(calls[c].currentTokens, calls[c].i),
                      !.pc = "inflight"])
    /\ UNCHANGED retryStates
    /\ UNCHANGED << prog, hist, side >>

\* the gateway answers the request of the call c
ConcurrentReply(c, reply) ==
    /\ calls[c].pc = "inflight"
    /\ LET k == calls[c]
           br == sendBatch(k.batch, reply, retryStates[k.retryState])
       IN  /\ SetCall(c, [k EXCEPT
                            !.successCount = @ + br.successCount,
                            !.retryableTokens = @ \o br.retryableTokens,
                            !.i = @ + maxTokensPerBatch,
                            !.batch = <<>>,
                            !.pc = "batches",
                            !.succeeded = @ \cup OkTokens(k.batch, reply),
                            !.terminal = @ \cup TerminalTokens(k.batch, reply)])
           /\ SetRetryState(c, br.retryState)
    /\ UNCHANGED << prog, hist, side >>

\* the call c after the last batch of a pass
ConcurrentEndPass(c) ==
    /\ calls[c].pc = "batches"
    /\ calls[c].i >= Len(calls[c].currentTokens)
    /\ LET k == calls[c]
           rs == addSuccessCount(retryStates[k.retryState], k.successCount)
           cur == uniqueTokens(k.retryableTokens)
       IN  IF Len(k.retryableTokens) = 0
           THEN /\ SetCall(c, [k EXCEPT !.currentTokens = <<>>,
                                        !.pc = "done",
                                        !.result = finish(rs, <<>>).result])
                /\ SetRetryState(c, finish(rs, <<>>).retryState)
           ELSE IF k.attempt < maxRetries
           THEN /\ SetCall(c, [k EXCEPT !.currentTokens = cur, !.pc = "wait"])
                /\ SetRetryState(c, rs)
           ELSE /\ SetCall(c, [k EXCEPT !.currentTokens = cur,
                                        !.attempt = @ + 1,
                                        !.pc = "done",
                                        !.result = finish(rs, cur).result])
                /\ SetRetryState(c, finish(rs, cur).retryState)
    /\ UNCHANGED << prog, hist, side >>

\* the backoff timer of the call c fires
ConcurrentWaitElapsed(c) ==
    /\ calls[c].pc = "wait"
    /\ LET k == calls[c]
           rs == retryStates[k.retryState]
       IN  IF k.attempt + 1 <= maxRetries /\ Len(k.currentTokens) # 0
           THEN /\ SetCall(c, [k EXCEPT !.attempt = @ + 1,
                                        !.pc = "batches",
                                        !.i = 0,
                                        !.successCount = 0,
                                        !.retryableTokens = <<>>])
                /\ UNCHANGED retryStates
           ELSE /\ SetCall(c, [k EXCEPT !.attempt = @ + 1,
                                        !.pc = "done",
                                        !.result = finish(rs, k.currentTokens).result])
                /\ SetRetryState(c, finish(rs, k.currentTokens).retryState)
    /\ UNCHANGED << prog, hist, side >>

\* the context of the call c is cancelled while it waits
ConcurrentWaitCancelled(c) ==
    /\ calls[c].pc = "wait"
    /\ SetCall(c, [calls[c] EXCEPT
                      !.pc = "done",
                      !.result = cancelledReturn(retryStates[calls[c].retryState],
                                                 calls[c].currentTokens,
                                                 waitForRetry(TRUE))])
    /\ UNCHANGED retryStates
    /\ UNCHANGED << prog, hist, side >>

ConcurrentCalls ==
    \E c \in CallIds : calls[c].pc = "idle" /\
        \E input \in ConcurrentInputs : ConcurrentCall(c, input)

ConcurrentSubmits == \E c \in CallIds : ConcurrentSubmit(c)

ConcurrentReplies ==
    \E c \in CallIds : calls[c].pc = "inflight" /\
        \E reply \in GatewayReplies(calls[c].batch) : ConcurrentReply(c, reply)

ConcurrentEndPasses == \E c \in CallIds : ConcurrentEndPass(c)

ConcurrentWaitsElapse == \E c \in CallIds : ConcurrentWaitElapsed(c)

ConcurrentWaitsCancelled == \E c \in CallIds : ConcurrentWaitCancelled(c)

NextConcurrent ==
    \/ ConcurrentCalls
    \/ ConcurrentSubmits
    \/ ConcurrentReplies
    \/ ConcurrentEndPasses
    \/ ConcurrentWaitsElapse
    \/ ConcurrentWaitsCancelled

SpecConcurrent == Init /\ [][NextConcurrent]_vars

(***************************************************************************)
(* The earlier engine of the same file: SendMulticastNotification cuts the *)
(* token list into batches and sendMulticastWithRetry retries each batch   *)
(* as a whole.  Only the length of the token list matters to it.           *)
(***************************************************************************)

isRetryableError(err) ==
    IF err \in BatchErrors THEN err \in retryableBatchMessages
    ELSE scanBatchPatterns(err)

\* what the gateway may answer to a batch of len tokens
MulticastReplies(len) ==
    {[err |-> e, SuccessCount |-> 0, FailureCount |-> 0] : e \in BatchErrors}
        \cup {[err |-> Nil, SuccessCount |-> k, FailureCount |-> len - k] : k \in 0..len}

\* the batch that starts at mr.i
MulticastBatchLen ==
    (IF mr.i + maxTokensPerBatch > mr.n THEN mr.n ELSE mr.i + maxTokensPerBatch) - mr.i

\* sendMulticastWithRetry is entered for the batch at index start
EnterBatch(m, start) ==
    [m EXCEPT !.pc = "send", !.i = start, !.attempt = 0,
              !.retryDelay = initialRetryDelayBatch,
              !.submissions = 0, !.waited = <<>>]

MulticastCall ==
    /\ mr.pc = "idle"
    /\ \E n \in 0..MaxInputLen :
          mr' = IF n = 0
                THEN [NoMulticast EXCEPT !.pc = "done"]
                ELSE EnterBatch([NoMulticast EXCEPT !.n = n], 0)
    /\ UNCHANGED << prog, hist, conc, backoff, classified >>

MulticastSubmit ==
    /\ mr.pc = "send"
    /\ mr' = [mr EXCEPT !.pc = "inflight", !.submissions = @ + 1]
    /\ UNCHANGED << prog, hist, conc, backoff, classified >>

MulticastReply(reply) ==
    /\ mr.pc = "inflight"
    /\ mr' =
          IF reply.err = Nil
          THEN LET m == [mr EXCEPT !.totalSuccess = @ + reply.SuccessCount,
                                   !.totalFailure = @ + reply.FailureCount]
               IN  IF mr.i + maxTokensPerBatch < mr.n
                   THEN EnterBatch(m, mr.i + maxTokensPerBatch)
                   ELSE [m EXCEPT !.pc = "done",
                                  !.result = [success |-> m.totalSuccess,
                                              failure |-> m.totalFailure,
                                              err |-> Nil]]
          ELSE IF ~isRetryableError(reply.err) \/ ~(mr.attempt < maxRetriesBatch)
          THEN [mr EXCEPT !.pc = "done",
                          !.attempt = IF isRetryableError(reply.err) THEN @ + 1 ELSE @,
                          !.result = [success |-> mr.totalSuccess,
                                      failure |-> mr.totalFailure,
                                      err |-> reply.err]]
          ELSE LET doubled == mr.retryDelay * 2
                   delay == IF doubled > maxRetryDelayBatch
                            THEN maxRetryDelayBatch ELSE doubled
               IN  [mr EXCEPT !.pc = "wait",
                              !.attempt = @ + 1,
                              !.retryDelay = delay,
                              !.waited = Append(@, delay)]
    /\ UNCHANGED << prog, hist, conc, backoff, classified >>

MulticastAnswers ==
    /\ mr.pc = "inflight"
    /\ \E reply \in MulticastReplies(MulticastBatchLen) : MulticastReply(reply)

MulticastWaitElapsed ==
    /\ mr.pc = "wait"
    /\ ~mr.cancelled
    /\ mr' = [mr EXCEPT !.pc = "send"]
    /\ UNCHANGED << prog, hist, conc, backoff, classified >>

MulticastWaitCancelled ==
    /\ mr.pc = "wait"
    /\ mr.cancelled
    /\ mr' = [mr EXCEPT !.pc = "done",
                        !.result = [success |-> mr.totalSuccess,
                                    failure |-> mr.totalFailure,
                                    err |-> Canceled]]
    /\ UNCHANGED << prog, hist, conc, backoff, classified >>

MulticastCancel ==
    /\ mr.pc \in {"send", "inflight", "wait"}
    /\ ~mr.cancelled
    /\ mr' = [mr EXCEPT !.cancelled = TRUE]
    /\ UNCHANGED << prog, hist, conc, backoff, classified >>

NextBatchRetry ==
    \/ MulticastCall
    \/ MulticastSubmit
    \/ MulticastAnswers
    \/ MulticastWaitElapsed
    \/ MulticastWaitCancelled
    \/ MulticastCancel

SpecBatchRetry == Init /\ [][NextBatchRetry]_vars

(***************************************************************************)
(* backoffDelay and isRetryablePerTokenError on their own: a caller picks   *)
(* an argument, the function returns.                                      *)
(***************************************************************************)
BackoffCall ==
    /\ backoff.pc = "idle"
    /\ \E k \in 1..MaxAttempt :
          backoff' = [pc |-> "called", attempt |-> k, delay |-> NoDelay]
    /\ UNCHANGED << prog, hist, conc, classified, mr >>

BackoffReturn ==
    /\ backoff.pc = "called"
    /\ backoff' = [backoff EXCEPT !.pc = "returned",
                                  !.delay = backoffDelay(backoff.attempt)]
    /\ UNCHANGED << prog, hist, conc, classified, mr >>

BackoffDiscard ==
    /\ backoff.pc = "returned"
    /\ backoff' = NoBackoff
    /\ UNCHANGED << prog, hist, conc, classified, mr >>

\* the per-token errors handed to isRetryablePerTokenError on its own
ClassifyInputs ==
    TokenErrors \cup {Nil, "Too-Many-Requests", "QUOTA-EXCEEDED: INVALID-PACKAGE-NAME"}

ClassifyCall ==
    /\ classified.pc = "idle"
    /\ \E e \in ClassifyInputs :
          classified' = [pc |-> "called", err |-> e, retryable |-> FALSE]
    /\ UNCHANGED << prog, hist, conc, backoff, mr >>

ClassifyReturn ==
    /\ classified.pc = "called"
    /\ classified' = [classified EXCEPT
                         !.pc = "returned",
                         !.retryable = isRetryablePerTokenError(classified.err)]
    /\ UNCHANGED << prog, hist, conc, backoff, mr >>

ClassifyDiscard ==
    /\ classified.pc = "returned"
    /\ classified' = NotClassified
    /\ UNCHANGED << prog, hist, conc, backoff, mr >>

NextFunctions ==
    \/ BackoffCall
    \/ BackoffReturn
    \/ BackoffDiscard
    \/ ClassifyCall
    \/ ClassifyReturn
    \/ ClassifyDiscard

SpecFunctions == Init /\ [][NextFunctions]_vars

(***************************************************************************)
(* Properties.                                                             *)
(***************************************************************************)
\* N: the number of distinct non-empty tokens of the argument, after
\* truncation to the ceiling
N == Min(Len(distinctInput), FCMAbsoluteLimit)

Range(seq) == {seq[k] : k \in 1..Len(seq)}

\* C1 (conservation): every return of SendMulticastNotification, with a nil
\* error or with the cancellation error, has success + failure <= N.
C1_Conservation ==
    pc = "done" => result.success + result.failure <= N

\* a truncated input, delivered in part and failed in part
C1_Witness ==
    /\ pc = "done"
    /\ Len(distinctInput) > FCMAbsoluteLimit
    /\ result.success > 0
    /\ result.failure > 0
    /\ waits > 0

\* C2 (finality): a batch submitted to the gateway contains no token that was
\* classified terminal earlier in the call (by a terminal whole-batch error
\* or a terminal per-token error), i.e. no token of finalFailedTokens.
C2_Finality ==
    pc = "inflight" =>
        \A k \in 1..Len(batch) :
            /\ batch[k] \notin retryState.finalFailedTokens
            /\ batch[k] \notin terminal

\* a second-pass batch in flight after a token of the first pass failed
\* terminally
C2_Witness ==
    /\ pc = "inflight"
    /\ attempt = 2
    /\ terminal # {}
    /\ retryState.finalFailedTokens # {}

\* C3 as stated: whenever the cancellation signal fired while the call was in
\* progress (during a gateway send or a backoff wait), the call returns a
\* non-nil cancellation error.
C3_CancellationAlwaysSurfaced ==
    (pc = "done" /\ cancelled) => result.err # Nil

\* C3 as amended: a cancellation seen during a backoff wait makes the call
\* return the cancellation error together with the totals accumulated so far:
\* the successes reported by the gateway, and the tokens given up on plus the
\* tokens pending retry.
C3_CancellationInWaitSurfaced ==
    (pc = "done" /\ cancelledInWait) =>
        /\ result.err = Canceled
        /\ result.success = Cardinality(succeeded)
        /\ result.failure = Cardinality(retryState.finalFailedTokens) + Len(currentTokens)
        /\ result.failure >= Cardinality(terminal)

\* a wait cancelled after successes and terminal failures
C3_Witness ==
    /\ pc = "done"
    /\ cancelledInWait
    /\ result.success > 0
    /\ terminal # {}
    /\ Len(currentTokens) > 0

C5_CancelDuringWait ==
    [][(pc = "wait" /\ cancelled) =>
          /\ pc' = "done"
          /\ result'.err = Canceled
          /\ gatewayCalls' = gatewayCalls
          /\ result'.success = Cardinality(succeeded)
          /\ attempt' = attempt]_vars

\* the wait after the second pass was cancelled, after some deliveries
C5_Witness ==
    /\ pc = "done"
    /\ result.err = Canceled
    /\ attempt = 2
    /\ waits = 2
    /\ result.success > 0

PastFirstPass ==
    \/ pc \in {"wait", "done"}
    \/ attempt >= 2
    \/ pc = "batches" /\ i >= Len(currentTokens)

\* C6 (dedup): every batch submitted to the gateway contains no empty string
\* and no token twice, and the batches of the first pass, in submission order,
\* are exactly the distinct non-empty tokens of the argument, up to the
\* ceiling, in first-occurrence order.
C6_Dedup ==
    /\ pc = "inflight" =>
          /\ \A k \in 1..Len(batch) : batch[k] # EmptyToken
          /\ \A j, k \in 1..Len(batch) : j # k => batch[j] # batch[k]
    /\ Len(firstPass) <= N
    /\ firstPass = SubSeq(distinctInput, 1, Len(firstPass))
    /\ PastFirstPass => Len(firstPass) = N

\* an argument with duplicates or empty strings, sent in two passes
C6_Witness ==
    /\ pc = "done"
    /\ inputLen > Len(distinctInput)
    /\ Len(distinctInput) = FCMAbsoluteLimit
    /\ Len(firstPass) = FCMAbsoluteLimit
    /\ gatewayCalls > 2
    /\ waits > 0

\* C7 (ceiling): with more than FCMAbsoluteLimit distinct non-empty tokens in
\* the argument, exactly the first FCMAbsoluteLimit of them are processed; the
\* others are never submitted and are in neither count.
C7_Ceiling ==
    Len(distinctInput) > FCMAbsoluteLimit =>
        LET first == {distinctInput[n] : n \in 1..FCMAbsoluteLimit}
            rest == {distinctInput[n] : n \in (FCMAbsoluteLimit + 1)..Len(distinctInput)}
        IN  /\ \A t \in rest :
                  /\ submits[t] = 0
                  /\ t \notin succeeded
                  /\ t \notin retryState.finalFailedTokens
            /\ PastFirstPass =>
                  /\ {t \in Tokens : submits[t] > 0} = first
                  /\ firstPass = SubSeq(distinctInput, 1, FCMAbsoluteLimit)
            /\ pc = "done" => result.success + result.failure = FCMAbsoluteLimit

\* an argument above the ceiling, delivered in part
C7_Witness ==
    /\ pc = "done"
    /\ Len(distinctInput) > FCMAbsoluteLimit
    /\ result.success > 0
    /\ result.failure > 0
    /\ result.err = Nil

\* C8: an empty argument, or one with empty strings only, returns (0, 0, nil)
\* and no gateway request is issued.
C8_EmptyShortCircuit ==
    (pc # "idle" /\ Len(distinctInput) = 0) =>
        /\ pc = "done"
        /\ result = [success |-> 0, failure |-> 0, err |-> Nil]
        /\ gatewayCalls = 0

\* an argument of empty strings only has returned
C8_Witness ==
    /\ pc = "done"
    /\ inputLen > 0
    /\ Len(distinctInput) = 0

\* C9: if every gateway request of a call fails with a retryable whole-batch
\* error and no backoff wait is cancelled, every token is submitted exactly
\* maxRetries times and the call returns (0, N, nil), all N tokens being in
\* finalFailedTokens; and any token in the working set after pass maxRetries is
\* in finalFailedTokens, which the failure count counts once each.
C9_PersistentRetryableFailure ==
    /\ (pc = "done" /\ result.err = Nil /\ gatewayCalls > 0 /\ onlyBatchRetryable) =>
          /\ \A t \in Range(allTokens) : submits[t] = maxRetries
          /\ result = [success |-> 0, failure |-> N, err |-> Nil]
          /\ retryState.finalFailedTokens = Range(allTokens)
    /\ (pc = "done" /\ attempt > maxRetries) =>
          /\ Range(currentTokens) \subseteq retryState.finalFailedTokens
          /\ result.failure = Cardinality(retryState.finalFailedTokens)
          /\ result.success + result.failure = N

\* one batch of tokens failed retryably in each of the maxRetries passes
C9_Witness ==
    /\ pc = "done"
    /\ onlyBatchRetryable
    /\ Len(allTokens) = maxTokensPerBatch
    /\ gatewayCalls = maxRetries
    /\ result = [success |-> 0, failure |-> maxTokensPerBatch, err |-> Nil]

\* C10 (early stop): the step that ends a pass without retryable tokens
\* returns at once: no backoff wait, no further gateway request, no
\* succeeded token marked failed, and the result is (successes, terminal
\* failures, nil).
C10_EarlyStop ==
    [][(pc = "batches" /\ i >= Len(currentTokens) /\ Len(retryableTokens) = 0
            /\ pc' # pc) =>
          /\ pc' = "done"
          /\ waits' = waits
          /\ gatewayCalls' = gatewayCalls
          /\ result' = [success |-> Cardinality(succeeded),
                        failure |-> Cardinality(terminal),
                        err |-> Nil]
          /\ retryState'.finalFailedTokens = terminal
          /\ succeeded \cap retryState'.finalFailedTokens = {}]_vars

\* a single pass over several batches: some tokens succeeded, one failed
\* terminally, nothing to retry
C10_Witness ==
    /\ pc = "done"
    /\ attempt = 1
    /\ waits = 0
    /\ gatewayCalls = 2
    /\ result = [success |-> FCMAbsoluteLimit - 1, failure |-> 1, err |-> Nil]

\* ceil(n / maxTokensPerBatch)
BatchesFor(n) == (n + maxTokensPerBatch - 1) \div maxTokensPerBatch

NoDuplicates(seq) == \A j, k \in 1..Len(seq) : seq[j] = seq[k] => j = k

\* the first pass is over and the gateway reported nothing but successes in it
FirstPassAllSuccess ==
    /\ Len(passes) >= 1
    /\ passes[1].retry = {}
    /\ passes[1].term = {}
    /\ Len(passes) = 1 => (PassOver \/ pc \in {"wait", "done"})

\* C11: when the gateway reports every one of the N distinct tokens a success in
\* the first pass, the call makes exactly ceil(N / maxTokensPerBatch) gateway
\* calls, each token in one of them, waits for no backoff, and returns
\* (N, 0, nil).
C11_AllSuccess ==
    FirstPassAllSuccess =>
        /\ gatewayCalls = BatchesFor(N)
        /\ waits = 0
        /\ Len(passes) = 1
        /\ \A t \in Range(allTokens) : submits[t] = 1
        /\ pc = "done" =>
              result = [success |-> N, failure |-> 0, err |-> Nil]
        /\ pc \in {"batches", "done"}

C11_Witness ==
    /\ pc = "done"
    /\ FirstPassAllSuccess
    /\ N = FCMAbsoluteLimit
    /\ N > maxTokensPerBatch
    /\ gatewayCalls = BatchesFor(N)
    /\ result.success = N

\* C12: in every pass the working list is cut into contiguous batches, each of
\* them non-empty and of at most maxTokensPerBatch tokens, and the batches in
\* submission order concatenate to the working list.
C12_BatchPlanning ==
    /\ pc = "inflight" =>
          /\ Len(batch) >= 1
          /\ Len(batch) <= maxTokensPerBatch
          /\ batch = SubSeq(currentTokens, i + 1, i + Len(batch))
          /\ passes[Len(passes)].sent = SubSeq(currentTokens, 1, i + Len(batch))
          /\ i + Len(batch) <= Len(currentTokens)
    /\ pc = "batches" =>
          /\ passes[Len(passes)].list = currentTokens
          /\ passes[Len(passes)].sent =
                SubSeq(currentTokens, 1, Min(i, Len(currentTokens)))
          /\ PassOver => passes[Len(passes)].sent = currentTokens
    /\ \A k \in 1..(Len(passes) - 1) : passes[k].sent = passes[k].list

C12_Witness ==
    /\ PassOver
    /\ Len(passes) = 2
    /\ Len(currentTokens) > maxTokensPerBatch
    /\ passes[2].sent = currentTokens

\* the delays of the backoff waits of the call so far, in order
Delays == [k \in 1..waits |-> passes[k].delay]

\* C13: the backoff waits of one call, in the order they are incurred, never
\* get shorter, and none is longer than maxRetryDelay.
C13_BackoffMonotone ==
    /\ waits <= Len(passes)
    /\ \A k \in 1..waits :
          /\ ~Greater(initialRetryDelayNanos, Delays[k])
          /\ ~Greater(Delays[k], maxRetryDelayNanos)
    /\ \A k \in 1..(waits - 1) : ~Greater(Delays[k], Delays[k + 1])

C13_Witness ==
    /\ waits = maxRetries - 1
    /\ Greater(Delays[waits], Delays[1])

\* C15: a call runs at most maxRetries passes, starts a pass only over a
\* non-empty working list, submits no token more than maxRetries times, and
\* makes at most maxRetries * ceil(N / maxTokensPerBatch) gateway calls.
C15_RetryBound ==
    /\ Len(passes) <= maxRetries
    /\ \A k \in 1..Len(passes) : Len(passes[k].list) > 0
    /\ pc \in {"batches", "inflight"} =>
          /\ attempt = Len(passes)
          /\ attempt <= maxRetries
          /\ Len(currentTokens) > 0
    /\ \A t \in Tokens : submits[t] <= maxRetries
    /\ gatewayCalls <= maxRetries * BatchesFor(N)

C15_Witness ==
    /\ pc = "done"
    /\ N > maxTokensPerBatch
    /\ gatewayCalls = maxRetries * BatchesFor(N)
    /\ \E t \in Tokens : submits[t] = maxRetries

\* the list l is what the pass p leaves for the next pass
LeftBy(p, l) ==
    /\ Range(l) = p.retry
    /\ NoDuplicates(l)
    /\ Range(l) \subseteq Range(p.list)
    /\ Range(l) \cap (p.ok \cup p.term) = {}

\* C16: the token list of pass k+1 is exactly the tokens the gateway failed
\* retryably in pass k, each once: a subset of the list of pass k that holds no
\* token that succeeded or failed terminally in pass k.
C16_WorkingSetShrinks ==
    /\ \A k \in 1..(Len(passes) - 1) : LeftBy(passes[k], passes[k + 1].list)
    /\ pc = "wait" => LeftBy(passes[Len(passes)], currentTokens)
    /\ pc \in {"batches", "inflight"} => passes[Len(passes)].list = currentTokens

C16_Witness ==
    /\ Len(passes) = maxRetries
    /\ passes[1].ok \cup passes[1].term # {}
    /\ Len(passes[2].list) < Len(passes[1].list)
    /\ Len(passes[3].list) < Len(passes[2].list)

\* C20: a backoff wait happens exactly once between two consecutive passes and
\* nowhere else: not before the first pass, not after pass maxRetries, not after
\* a pass that left no retryable token; a call that runs p passes to completion
\* has waited p - 1 times.
C20_BackoffPlacement ==
    /\ Len(passes) = 0 => waits = 0
    /\ pc \in {"batches", "inflight"} => waits = Len(passes) - 1
    /\ pc = "wait" =>
          /\ waits = Len(passes)
          /\ Len(passes) < maxRetries
          /\ passes[Len(passes)].retry # {}
    /\ (pc = "done" /\ result.err = Nil /\ Len(passes) > 0) =>
          waits = Len(passes) - 1
    /\ (pc = "done" /\ result.err # Nil) => waits = Len(passes)
    /\ \A k \in 1..Len(passes) :
          /\ Greater(passes[k].delay, NoDelay) <=> k <= waits
          /\ Greater(passes[k].delay, NoDelay) =>
                (k < maxRetries /\ passes[k].retry # {})

C20_Witness ==
    /\ pc = "done"
    /\ result.err = Nil
    /\ Len(passes) = maxRetries
    /\ waits = maxRetries - 1
    /\ passes[maxRetries].retry # {}
    /\ passes[maxRetries].delay = NoDelay

\* the pass in progress, or the last one
ThisPass == passes[Len(passes)]

\* C17: a batch answered by a retryable whole-batch error contributes no
\* success, adds no token to finalFailedTokens, and hands every token of the
\* batch that is not already in finalFailedTokens to the retry set.
C17_RetryableBatchError ==
    /\ pc = "inflight" =>
          \A reply \in GatewayReplies(batch) :
             (reply.err # Nil /\ isRetryableBatchError(reply.err)) =>
                LET br == sendBatch(batch, reply, retryState)
                IN  /\ br.successCount = 0
                    /\ br.retryState = retryState
                    /\ br.retryableTokens =
                          SelectSeq(batch, LAMBDA t : t \notin retryState.finalFailedTokens)
                    /\ Range(batch) \ retryState.finalFailedTokens
                          \subseteq Range(br.retryableTokens)
    /\ (pc = "batches" /\ onlyBatchRetryable /\ gatewayCalls > 0) =>
          /\ successCount = 0
          /\ retryState.finalFailedTokens = {}
          /\ retryableTokens = ThisPass.sent

C17_Witness ==
    /\ pc = "batches"
    /\ gatewayCalls = 1
    /\ onlyBatchRetryable
    /\ successCount = 0
    /\ retryState.finalFailedTokens = {}
    /\ Len(retryableTokens) = maxTokensPerBatch
    /\ retryableTokens = passes[1].sent

\* C18: a batch answered by a terminal whole-batch error has every token added
\* to finalFailedTokens at once, none counted a success, none handed to the
\* retry set; no token that failed terminally is submitted again in the call.
C18_TerminalBatchError ==
    /\ pc = "inflight" =>
          \A reply \in GatewayReplies(batch) :
             (reply.err # Nil /\ ~isRetryableBatchError(reply.err)) =>
                LET br == sendBatch(batch, reply, retryState)
                IN  /\ br.successCount = 0
                    /\ br.retryableTokens = <<>>
                    /\ br.retryState.totalSuccess = retryState.totalSuccess
                    /\ br.retryState.finalFailedTokens =
                          retryState.finalFailedTokens \cup Range(batch)
    /\ pc \in {"batches", "inflight", "wait"} =>
          /\ terminal \subseteq retryState.finalFailedTokens
          /\ terminal \cap Range(retryableTokens) = {}
          /\ terminal \cap Range(batch) = {}
          /\ terminal \cap succeeded = {}
    /\ \A k \in 1..Len(passes) : \A j \in (k + 1)..Len(passes) :
          passes[k].term \cap Range(passes[j].list) = {}

C18_Witness ==
    /\ pc = "done"
    /\ N > maxTokensPerBatch
    /\ gatewayCalls = BatchesFor(N)
    /\ passes[1].term = Range(allTokens)
    /\ result = [success |-> 0, failure |-> N, err |-> Nil]

\* C19: for a batch answered without a whole-batch error the success count
\* grows by the number of success results, the tokens with a retryable failure
\* go to the retry set, the tokens with a terminal failure go to
\* finalFailedTokens, and every token of the batch is in exactly one of the
\* three groups; totalSuccess takes the successes of the pass when it ends.
C19_PerTokenProcessing ==
    /\ pc = "inflight" =>
          \A reply \in GatewayReplies(batch) :
             reply.err = Nil =>
                LET br == sendBatch(batch, reply, retryState)
                    ok == OkTokens(batch, reply)
                    again == Range(br.retryableTokens)
                    never == br.retryState.finalFailedTokens
                                \ retryState.finalFailedTokens
                IN  /\ br.successCount = Cardinality(ok)
                    /\ br.retryableTokens = SelectSeq(batch,
                          LAMBDA t : t \in RetryableOutcomeTokens(batch, reply))
                    /\ never = TerminalTokens(batch, reply)
                    /\ br.retryState.totalSuccess = retryState.totalSuccess
                    /\ ok \cup again \cup never = Range(batch)
                    /\ ok \cap again = {}
                    /\ ok \cap never = {}
                    /\ again \cap never = {}
    /\ pc \in {"batches", "inflight"} =>
          /\ successCount = Cardinality(ThisPass.ok)
          /\ Range(retryableTokens) = ThisPass.retry
          /\ retryState.finalFailedTokens = terminal
          /\ retryState.totalSuccess + successCount = Cardinality(succeeded)
    /\ pc = "wait" => retryState.totalSuccess = Cardinality(succeeded)
    /\ (pc = "done" /\ Len(passes) > 0) =>
          /\ retryState.totalSuccess = Cardinality(succeeded)
          /\ result.success = Cardinality(succeeded)

C19_Witness ==
    /\ pc = "batches"
    /\ gatewayCalls = 1
    /\ passes[1].ok # {}
    /\ passes[1].retry # {}
    /\ successCount = Cardinality(passes[1].ok)
    /\ Range(retryableTokens) = passes[1].retry

\* the retryState object of the call c
Own(c) == retryStates[calls[c].retryState]

\* C14: with two calls interleaved on one engine, the running totals, the
\* working set and the returned (success, failure, error) of each call are
\* what its own tokens and the gateway's answers to its own batches make them,
\* whatever the other call does.
C14_Independence ==
    \A c \in CallIds :
        LET k == calls[c]
        IN  /\ k.pc \in {"batches", "inflight"} =>
                  /\ Own(c).totalSuccess + k.successCount = Cardinality(k.succeeded)
                  /\ Own(c).finalFailedTokens = k.terminal
            /\ k.pc = "wait" =>
                  /\ Own(c).totalSuccess = Cardinality(k.succeeded)
                  /\ Own(c).finalFailedTokens = k.terminal
                  /\ Range(k.currentTokens) \cap (k.succeeded \cup k.terminal) = {}
            /\ k.pc = "done" =>
                  /\ k.result.success = Cardinality(k.succeeded)
                  /\ k.result.failure = k.n - Cardinality(k.succeeded)
                  /\ k.result.err = Nil =>
                        Own(c).finalFailedTokens \cap k.succeeded = {}

C14_Witness ==
    /\ calls["first"].pc = "wait"
    /\ calls["first"].terminal = {"b"}
    /\ Own("first").finalFailedTokens = {"b"}
    /\ calls["second"].pc = "inflight"
    /\ calls["second"].attempt = 2
    /\ "b" \in calls["second"].succeeded
    /\ Own("second").totalSuccess = 1
    /\ Own("second").finalFailedTokens = {}

\* min(initialRetryDelay * 2^(k-1), maxRetryDelay) in nanoseconds
CappedDelay(k) ==
    LET exact == TimesPowerOfTwo(initialRetryDelayNanos, k - 1)
    IN  IF Above(exact, maxRetryDelayNanos) THEN maxRetryDelayNanos ELSE Int64(exact)

MatchesSome(msg, table) ==
    \E k \in 1..Len(table) :
        msg = table[k] \/ ToLower(table[k]) \in LowerFragments(msg)

\* C22: a per-token error that matches an entry of the terminal list is
\* terminal even when it also matches an entry of the retryable list; otherwise
\* it is retryable iff it matches an entry of the retryable list; an error that
\* matches neither list is terminal.
C22_ClassificationPrecedence ==
    classified.pc = "returned" =>
        LET msg == classified.err
        IN  /\ MatchesSome(msg, tokenNonRetryableErrors) => ~classified.retryable
            /\ ~MatchesSome(msg, tokenNonRetryableErrors) =>
                  (classified.retryable <=> MatchesSome(msg, tokenRetryableErrors))
            /\ (/\ ~MatchesSome(msg, tokenNonRetryableErrors)
                /\ ~MatchesSome(msg, tokenRetryableErrors)) => ~classified.retryable

C22_Witness ==
    /\ classified.pc = "returned"
    /\ MatchesSome(classified.err, tokenNonRetryableErrors)
    /\ MatchesSome(classified.err, tokenRetryableErrors)
    /\ ~classified.retryable

\* C23: over every step of a call totalSuccess never decreases and
\* finalFailedTokens only grows, so the failure count never decreases; marking
\* a token that is already in finalFailedTokens changes nothing.
C23_RetryStateMonotone ==
    [][pc' # "idle" =>
         /\ retryState'.totalSuccess >= retryState.totalSuccess
         /\ retryState.finalFailedTokens \subseteq retryState'.finalFailedTokens
         /\ failedCount(retryState') >= failedCount(retryState)
         /\ \A t \in retryState'.finalFailedTokens :
               markAsFailed(retryState', t) = retryState']_vars

C23_Witness ==
    /\ pc = "wait"
    /\ attempt = 2
    /\ retryState.totalSuccess >= 1
    /\ failedCount(retryState) >= 1

\* C24: sendMulticastWithRetry submits one batch to the gateway at most
\* maxRetries (3) times.
C24_BatchAttemptBound == mr.submissions <= maxRetriesBatch

\* C25: in sendMulticastWithRetry the wait before the first retry is
\* initialRetryDelay, every later wait is double the one before it, and no
\* wait is longer than maxRetryDelay.
C25_BatchBackoffStart ==
    /\ Len(mr.waited) >= 1 => mr.waited[1] = initialRetryDelayBatch
    /\ \A k \in 1..(Len(mr.waited) - 1) : mr.waited[k + 1] = 2 * mr.waited[k]
    /\ \A k \in 1..Len(mr.waited) : mr.waited[k] <= maxRetryDelayBatch

\* C26 (exact accounting): with a gateway that answers one positional result
\* per token and a SuccessCount equal to the number of successful results,
\* every return with a nil error has success + failure = N, the tokens
\* counted as successes are disjoint from finalFailedTokens, and every token
\* of the deduplicated, capped list is in exactly one of the two.
C26_ExactAccounting ==
    (pc = "done" /\ result.err = Nil) =>
        /\ result.success + result.failure = N
        /\ succeeded \cap retryState.finalFailedTokens = {}
        /\ result.success = Cardinality(succeeded)
        /\ result.failure = Cardinality(retryState.finalFailedTokens)
        /\ N > 0 => succeeded \cup retryState.finalFailedTokens = Range(allTokens)

\* a normal return after retries with successes, terminal failures and tokens
\* that stayed retryable to the end
C26_Witness ==
    /\ pc = "done"
    /\ result.err = Nil
    /\ attempt > maxRetries
    /\ result.success > 0
    /\ terminal # {}
    /\ result.failure > Cardinality(terminal)

\* C27 (failure count on cancellation): when a backoff wait is cancelled, the
\* returned failure count is |finalFailedTokens| plus the number of tokens
\* pending retry, the pending tokens are not in finalFailedTokens, and
\* success + failure = N.
C27_CancelledFailureCount ==
    (pc = "done" /\ result.err # Nil) =>
        /\ Len(currentTokens) > 0
        /\ result.failure = failedCount(retryState) + Len(currentTokens)
        /\ Range(currentTokens) \cap retryState.finalFailedTokens = {}
        /\ result.success + result.failure = N

\* the second backoff wait cancelled, with tokens given up on and tokens
\* still pending
C27_Witness ==
    /\ pc = "done"
    /\ result.err = Canceled
    /\ attempt = 2
    /\ retryState.finalFailedTokens # {}
    /\ Len(currentTokens) > 1

\* C28 (no pass is abandoned midway): every batch of a started pass is
\* submitted, in order, whatever the gateway answered to the earlier batches of
\* the pass and whether or not the cancellation signal has fired: a pass that
\* has batches left can always submit the next one, a pass is left only with
\* all of its list submitted, and the cancellation error is returned only
\* from the backoff wait that follows a complete pass.
C28_NoPassAbandoned ==
    /\ (pc = "batches" /\ i < Len(currentTokens)) => ENABLED SubmitBatch
    /\ pc \in {"batches", "inflight"} =>
          ThisPass.sent = SubSeq(ThisPass.list, 1, Len(ThisPass.sent))
    /\ (pc \in {"wait", "done"} /\ Len(passes) >= 1) => ThisPass.sent = ThisPass.list
    /\ \A k \in 1..(Len(passes) - 1) : passes[k].sent = passes[k].list
    /\ (pc = "done" /\ result.err # Nil) => waits = Len(passes)
    /\ (pc = "done" /\ result.err = Nil /\ Len(passes) >= 1) => waits = Len(passes) - 1

\* a pass with a batch still to submit, after every token of an earlier batch
\* of the pass failed and with the cancellation signal already fired
C28_Witness ==
    /\ pc = "batches"
    /\ cancelled
    /\ i > 0
    /\ i < Len(currentTokens)
    /\ ThisPass.term \cup ThisPass.retry = Range(ThisPass.sent)
    /\ ThisPass.term # {}

\* the tokens the gateway reported delivered in the passes of the call so far
Delivered == UNION {passes[k].ok : k \in 1..Len(passes)}

\* C29 (no redelivery after success): a token whose positional result was a
\* success is in no batch submitted later in the same call, so no token is
\* reported successful twice and the returned success count is the number of
\* delivered tokens.
C29_NoRedelivery ==
    /\ pc = "inflight" => Range(batch) \cap succeeded = {}
    /\ \A j, k \in 1..Len(passes) :
          j < k => /\ passes[j].ok \cap Range(passes[k].list) = {}
                   /\ passes[j].ok \cap passes[k].ok = {}
    /\ pc \in {"batches", "inflight"} =>
          retryState.totalSuccess + successCount = Cardinality(Delivered)
    /\ (pc = "done" /\ Len(passes) >= 1) => result.success = Cardinality(Delivered)

\* a batch of the third pass in flight after deliveries in both earlier passes
C29_Witness ==
    /\ pc = "inflight"
    /\ Len(passes) = 3
    /\ passes[1].ok # {}
    /\ passes[2].ok # {}

\* C30 (termination): when every gateway request returns and every backoff
\* wait elapses or is cancelled, every call of SendMulticastNotification
\* returns, whatever the token list and whatever the gateway answers: time and
\* again no call is in progress.
C30_Termination == []<>(pc \in {"idle", "done"})

\* the return of a call that the gateway failed retryably in every batch of
\* every pass
C30_Witness ==
    /\ pc = "done"
    /\ Len(passes) = maxRetries
    /\ \A k \in 1..Len(passes) : passes[k].retry = Range(allTokens)
    /\ onlyBatchRetryable
    /\ Len(allTokens) > maxTokensPerBatch

====
